---- MODULE Spec2Model ----
(***************************************************************************)
(* A model of contrib/linearize/linearize-data.py: the main program's      *)
(* checks, the construction of BlockDataCopier, and BlockDataCopier.run()  *)
(* with writeBlock, copyOneBlock and fetchBlock.  Files are sequences of   *)
(* bytes (0..255); a file handle is a position in such a sequence.         *)
(***************************************************************************)
EXTENDS Integers, Sequences, FiniteSets, TLC

(***************************************************************************)
(* Bounds of the inputs.                                                   *)
(***************************************************************************)
NumBlocks == 3
MaxStream == 3

(***************************************************************************)
(* Numbers of the program.                                                 *)
(***************************************************************************)
FrameLen == 8
MagicLen == 4
HdrLen == 80
TimeOffset == 68
ResyncBack == 7
DefaultMaxOutSz == 1000 * 1000 * 1000
BaseHighTS == 1408893517 - 315360000
InitialLastDate == <<2000, 1>>
DefaultMagic == <<249, 190, 180, 217>>

(***************************************************************************)
(* Python values: sequences, slices, dictionaries.                         *)
(***************************************************************************)
Min(a, b) == IF a < b THEN a ELSE b

\* s[a:b] for 0 <= a
Slice(s, a, b) ==
    IF a >= Len(s) \/ b <= a THEN <<>> ELSE SubSeq(s, a + 1, Min(b, Len(s)))

\* s[a:] for 0 <= a
SliceFrom(s, a) == Slice(s, a, Len(s))

\* d[k] = v
Put(d, k, v) == [x \in (DOMAIN d) \cup {k} |-> IF x = k THEN v ELSE d[x]]

\* d.pop(k), the dictionary that is left
Del(d, k) == [x \in (DOMAIN d) \ {k} |-> d[x]]

EmptyDict == [x \in {} |-> 0]

\* struct.pack("<I", n) for 0 <= n < 2^31
LE32(n) ==
    <<n % 256, (n \div 256) % 256, (n \div 65536) % 256, (n \div 16777216) % 256>>

(***************************************************************************)
(* Python integers.  An integer the program computes from its input has    *)
(* no bound; it is the record [hi, lo] of the value hi * 65536 + lo with   *)
(* 0 <= lo < 65536.                                                        *)
(***************************************************************************)
Num(n) == [hi |-> n \div 65536, lo |-> n % 65536]

NumAdd(a, b) ==
    [hi |-> a.hi + b.hi + ((a.lo + b.lo) \div 65536), lo |-> (a.lo + b.lo) % 65536]

NumNeg(a) ==
    IF a.lo = 0 THEN [hi |-> -a.hi, lo |-> 0] ELSE [hi |-> -a.hi - 1, lo |-> 65536 - a.lo]

NumSub(a, b) == NumAdd(a, NumNeg(b))

NumLess(a, b) == a.hi < b.hi \/ (a.hi = b.hi /\ a.lo < b.lo)

NumMax(a, b) == IF NumLess(a, b) THEN b ELSE a

\* the integer as a number of the model, when it is below 2^31 in size
NumVal(a) == a.hi * 65536 + a.lo

\* struct.unpack("<I", b)[0] for a 4-byte b
UnLE32(b) == [hi |-> b[3] + 256 * b[4], lo |-> b[1] + 256 * b[2]]

(***************************************************************************)
(* hashlib.sha256, computed on 32-bit words.                               *)
(***************************************************************************)
\* a 32-bit word is <<high 16 bits, low 16 bits>>

\* a & b for 0 <= a, b < 2^n
RECURSIVE BitAnd(_, _, _)
BitAnd(a, b, n) ==
    IF n = 0 THEN 0 ELSE (a % 2) * (b % 2) + 2 * BitAnd(a \div 2, b \div 2, n - 1)

And16(a, b) == BitAnd(a, b, 16)

\* a ^ b for 0 <= a, b < 2^16
Xor16(a, b) == a + b - 2 * And16(a, b)

WAnd(x, y) == <<And16(x[1], y[1]), And16(x[2], y[2])>>
WXor(x, y) == <<Xor16(x[1], y[1]), Xor16(x[2], y[2])>>
WNot(x) == <<65535 - x[1], 65535 - x[2]>>

\* x + y mod 2^32
WAdd(x, y) ==
    <<(x[1] + y[1] + ((x[2] + y[2]) \div 65536)) % 65536, (x[2] + y[2]) % 65536>>

\* x >> n, for 0 <= n < 32
ShR(x, n) ==
    IF n >= 16 THEN <<0, x[1] \div (2 ^ (n - 16))>>
    ELSE <<x[1] \div (2 ^ n), (x[2] \div (2 ^ n)) + (x[1] % (2 ^ n)) * (2 ^ (16 - n))>>

\* the word <<hi, lo>> rotated right by k, for 0 <= k < 16
Rot16(hi, lo, k) ==
    <<(hi \div (2 ^ k)) + (lo % (2 ^ k)) * (2 ^ (16 - k)),
      (lo \div (2 ^ k)) + (hi % (2 ^ k)) * (2 ^ (16 - k))>>

\* x rotated right by n, for 0 <= n < 32
RotR(x, n) == IF n >= 16 THEN Rot16(x[2], x[1], n - 16) ELSE Rot16(x[1], x[2], n)

\* the four bytes of a word, the high byte first
WordBytes(x) == <<x[1] \div 256, x[1] % 256, x[2] \div 256, x[2] % 256>>

Sha256K ==
    <<<<17034, 12184>>, <<28983, 17553>>, <<46528, 64463>>, <<59829, 56229>>,
      <<14678, 49755>>, <<23025, 4593>>, <<37439, 33444>>, <<43804, 24277>>,
      <<55303, 43672>>, <<4739, 23297>>, <<9265, 34238>>, <<21772, 32195>>,
      <<29374, 23924>>, <<32990, 45566>>, <<39900, 1703>>, <<49563, 61812>>,
      <<58523, 27073>>, <<61374, 18310>>, <<4033, 40390>>, <<9228, 41420>>,
      <<11753, 11375>>, <<19060, 33962>>, <<23728, 43484>>, <<30457, 35034>>,
      <<38974, 20818>>, <<43057, 50797>>, <<45059, 10184>>, <<48985, 32711>>,
      <<50912, 3059>>, <<54695, 37191>>, <<1738, 25425>>, <<5161, 10599>>,
      <<10167, 2693>>, <<11803, 8504>>, <<19756, 28156>>, <<21304, 3347>>,
      <<25866, 29524>>, <<30314, 2747>>, <<33218, 51502>>, <<37490, 11397>>,
      <<41663, 59553>>, <<43034, 26187>>, <<49739, 35696>>, <<51052, 20899>>,
      <<53650, 59417>>, <<54937, 1572>>, <<62478, 13701>>, <<4202, 41072>>,
      <<6564, 49430>>, <<7735, 27656>>, <<10056, 30540>>, <<13488, 48309>>,
      <<14620, 3251>>, <<20184, 43594>>, <<23452, 51791>>, <<26670, 28659>>,
      <<29839, 33518>>, <<30885, 25455>>, <<33992, 30740>>, <<36039, 520>>,
      <<37054, 65530>>, <<42064, 27883>>, <<48889, 41975>>, <<50801, 30962>>>>

Sha256H0 ==
    <<<<27145, 58983>>, <<47975, 44677>>, <<15470, 62322>>, <<42319, 62778>>,
      <<20750, 21119>>, <<39685, 26764>>, <<8067, 55723>>, <<23520, 52505>>>>

\* the functions of the standard (FIPS 180-4, 4.1.2)
Ch(x, y, z) == WXor(WAnd(x, y), WAnd(WNot(x), z))
Maj(x, y, z) == WXor(WXor(WAnd(x, y), WAnd(x, z)), WAnd(y, z))
BigSigma0(x) == WXor(WXor(RotR(x, 2), RotR(x, 13)), RotR(x, 22))
BigSigma1(x) == WXor(WXor(RotR(x, 6), RotR(x, 11)), RotR(x, 25))
SmallSigma0(x) == WXor(WXor(RotR(x, 7), RotR(x, 18)), ShR(x, 3))
SmallSigma1(x) == WXor(WXor(RotR(x, 17), RotR(x, 19)), ShR(x, 10))

\* the message with its padding: 0x80, zeros, the bit length in 8 bytes
Sha256Pad(msg) ==
    LET n == Len(msg)
        zeros == (119 - (n % 64)) % 64
        bits == 8 * n
    IN msg \o <<128>> \o [i \in 1..zeros |-> 0]
           \o <<0, 0, 0, 0, (bits \div 16777216) % 256, (bits \div 65536) % 256,
                (bits \div 256) % 256, bits % 256>>

\* The loops below are split in halves, and a half starts when the value of
\* the half before it is there (Len is taken of it), so that no deep nest of
\* pending steps builds up.

\* the words lo..hi of the message schedule, appended to the words before
RECURSIVE Sha256Extend(_, _, _)
Sha256Extend(w, lo, hi) ==
    IF Len(w) # lo - 1 THEN w
    ELSE IF lo < hi
    THEN Sha256Extend(Sha256Extend(w, lo, (lo + hi) \div 2), ((lo + hi) \div 2) + 1, hi)
    ELSE Append(w, WAdd(WAdd(w[lo - 16], SmallSigma0(w[lo - 15])),
                        WAdd(w[lo - 7], SmallSigma1(w[lo - 2]))))

\* the 64 words of the message schedule of the block at byte offset off
Sha256Schedule(p, off) ==
    Sha256Extend(<<>> \o [t \in 1..16 |->
                     <<256 * p[off + 4 * t - 3] + p[off + 4 * t - 2],
                       256 * p[off + 4 * t - 1] + p[off + 4 * t]>>], 17, 64)

\* one round on the working variables s = <<a, b, c, d, e, f, g, h>>, with
\* the constant k and the schedule word w of the round
Sha256T1(s, k, w) ==
    WAdd(WAdd(WAdd(s[8], BigSigma1(s[5])), WAdd(Ch(s[5], s[6], s[7]), k)), w)

Sha256T2(s) == WAdd(BigSigma0(s[1]), Maj(s[1], s[2], s[3]))

Sha256Shift(s, t1, t2) ==
    <<WAdd(t1, t2), s[1], s[2], s[3], WAdd(s[4], t1), s[5], s[6], s[7]>>

Sha256Round(s, k, w) == Sha256Shift(s, Sha256T1(s, k, w), Sha256T2(s))

\* the rounds lo..hi of the compression, on the working variables s
RECURSIVE Sha256Rounds(_, _, _, _)
Sha256Rounds(s, w, lo, hi) ==
    IF Len(s) # 8 THEN s
    ELSE IF lo < hi
    THEN Sha256Rounds(Sha256Rounds(s, w, lo, (lo + hi) \div 2), w,
                      ((lo + hi) \div 2) + 1, hi)
    ELSE Sha256Round(s, Sha256K[lo], w[lo])

\* the sum of two hash values, word by word
Sha256Sum(hv, out) ==
    <<WAdd(hv[1], out[1]), WAdd(hv[2], out[2]), WAdd(hv[3], out[3]),
      WAdd(hv[4], out[4]), WAdd(hv[5], out[5]), WAdd(hv[6], out[6]),
      WAdd(hv[7], out[7]), WAdd(hv[8], out[8])>>

\* the compression of one block, of schedule w, into the hash value hv
Sha256Compress(hv, w) == Sha256Sum(hv, Sha256Rounds(hv, w, 1, 64))

\* the hash value after the first n blocks of the padded message p
RECURSIVE Sha256Blocks(_, _)
Sha256Blocks(p, n) ==
    IF n = 0 THEN Sha256H0
    ELSE Sha256Compress(Sha256Blocks(p, n - 1), Sha256Schedule(p, 64 * (n - 1)))

\* the 32 bytes of a hash value
Sha256Bytes(hv) ==
    WordBytes(hv[1]) \o WordBytes(hv[2]) \o WordBytes(hv[3]) \o WordBytes(hv[4])
        \o WordBytes(hv[5]) \o WordBytes(hv[6]) \o WordBytes(hv[7]) \o WordBytes(hv[8])

Sha256Digest(p) == Sha256Bytes(Sha256Blocks(p, Len(p) \div 64))

\* hashlib.sha256(msg).digest()
sha256(msg) == Sha256Digest(Sha256Pad(msg))

(***************************************************************************)
(* Hashing of a block header.                                              *)
(***************************************************************************)
HexChars ==
    <<"0", "1", "2", "3", "4", "5", "6", "7", "8", "9", "a", "b", "c", "d", "e", "f">>

\* bytes.hex()
Hex(buf) ==
    [i \in 1..(2 * Len(buf)) |->
        LET b == buf[(i + 1) \div 2]
        IN IF i % 2 = 1 THEN HexChars[(b \div 16) + 1] ELSE HexChars[(b % 16) + 1]]

\* bufreverse: every 4-byte word packed back with its bytes reversed
bufreverse(in_buf) ==
    [i \in 1..Len(in_buf) |-> in_buf[4 * ((i - 1) \div 4) + (3 - ((i - 1) % 4)) + 1]]

\* wordreverse: the 4-byte words in reverse order
wordreverse(in_buf) ==
    LET n == Len(in_buf) \div 4
    IN [i \in 1..Len(in_buf) |-> in_buf[4 * (n - 1 - ((i - 1) \div 4)) + ((i - 1) % 4) + 1]]

\* calc_hdr_hash: the digest of the digest of the header
calc_hdr_hash(gaia_hdr) == sha256(sha256(gaia_hdr))

calc_hash_str(gaia_hdr) == Hex(wordreverse(bufreverse(calc_hdr_hash(gaia_hdr))))

(***************************************************************************)
(* get_gaia_dt: the timestamp of a header and the first day of its month,  *)
(* as <<year, month>>.  datetime.fromtimestamp gives the local time of the *)
(* machine the program runs on: offset is the distance of that local time  *)
(* from UTC, in seconds.                                                   *)
(***************************************************************************)
\* the year and month of a day with the month mp counted from March
CivilFromMp(y, mp) == IF mp < 10 THEN <<y, mp + 3>> ELSE <<y + 1, mp - 9>>

\* ... of the day doe of a 400-year era, in the year yoe of that era
CivilFromYoe(era, doe, yoe) ==
    CivilFromMp(yoe + era * 400,
                (5 * (doe - (365 * yoe + (yoe \div 4) - (yoe \div 100))) + 2) \div 153)

CivilFromEra(era, doe) ==
    CivilFromYoe(era, doe,
                 (doe - (doe \div 1460) + (doe \div 36524) - (doe \div 146096)) \div 365)

\* ... of the day z, counted from 0000-03-01
CivilFromDays(z) == CivilFromEra(z \div 146097, z % 146097)

\* the number of the day of a second: local \div 86400, and 86400 = 128 * 675
DayOf(local) == ((local.hi * 512) + (local.lo \div 128)) \div 675

YearMonth(nTime, offset) ==
    CivilFromDays(DayOf(NumAdd(nTime, Num(offset))) + 719468)

get_gaia_dt(gaia_hdr, offset) ==
    LET nTime == UnLE32(Slice(gaia_hdr, TimeOffset, TimeOffset + 4))
    IN [dt_ym |-> YearMonth(nTime, offset), nTime |-> nTime]

\* datetime a > datetime b, both the first of a month
DateGT(a, b) == a[1] > b[1] \/ (a[1] = b[1] /\ a[2] > b[2])

(***************************************************************************)
(* The input: an index of NumBlocks block hashes at most, and a stream of  *)
(* chunks laid out over the input files gaia00000.dat, gaia00001.dat, ...  *)
(* A chunk is a framed record (its declared length may be wrong), a run of *)
(* bytes that is no record, a frame cut off after five bytes, or the end   *)
(* of one file and the start of the next.  Block NumBlocks is a block that *)
(* the index does not hold.                                                *)
(***************************************************************************)
TsChoices == <<1000000000, 1231006505, 1233446399>>
TzOffsets == {-18000, 0, 32400}
Ceilings == {0, 2}
MaxOutChoices == {50, 89, 180, DefaultMaxOutSz}
BadLens == {79, 70}
JunkBytes == <<0, 170, 170>>
CutBytes == DefaultMagic \o <<90>>

TsSet == {TsChoices[i] : i \in 1..Len(TsChoices)}

\* every block with the timestamp of the genesis block
FixedTs == [h \in 0..NumBlocks |-> TsChoices[2]]

\* the 80-byte header of block h with timestamp ts: the block in byte 0, the
\* timestamp in bytes 68..71
HeaderBytes(h, ts) ==
    [i \in 1..HdrLen |->
        IF i = 1 THEN h + 1
        ELSE IF i > TimeOffset /\ i <= TimeOffset + 4 THEN LE32(ts)[i - TimeOffset]
        ELSE 0]

HeaderTable == [h \in 0..NumBlocks, ts \in TsSet |-> HeaderBytes(h, ts)]
Header(h, ts) == HeaderTable[h, ts]

Payload(h) == IF h % 2 = 0 THEN <<16 + h>> ELSE <<16 + h, 32 + h>>

Rec(h) == [k |-> "rec", h |-> h, len |-> HdrLen + Len(Payload(h))]
Bad(h, l) == [k |-> "rec", h |-> h, len |-> l]
Junk == [k |-> "junk", h |-> 0, len |-> 0]
Cut == [k |-> "cut", h |-> 0, len |-> 0]
Eof == [k |-> "eof", h |-> 0, len |-> 0]

WellFormed(c) == c.k = "rec" /\ c.len = HdrLen + Len(Payload(c.h))

ChunkBytes(c, tsOf) ==
    IF c.k = "rec"
    THEN DefaultMagic \o LE32(c.len) \o Header(c.h, tsOf[c.h]) \o Payload(c.h)
    ELSE IF c.k = "junk" THEN JunkBytes
    ELSE IF c.k = "cut" THEN CutBytes
    ELSE <<>>

Alphabet(n) ==
    {Rec(h) : h \in 0..(n - 1)} \cup {Rec(NumBlocks)}
        \cup {Bad(n - 1, l) : l \in BadLens} \cup {Junk, Cut, Eof}

Streams(n) == UNION {[1..l -> Alphabet(n)] : l \in 0..MaxStream}

\* the files of a stream, in order: an "eof" chunk ends a file
FilesOf(str, tsOf) ==
    LET RECURSIVE go(_, _, _)
        go(i, cur, acc) ==
            IF i > Len(str) THEN Append(acc, cur)
            ELSE IF str[i].k = "eof" THEN go(i + 1, <<>>, Append(acc, cur))
            ELSE go(i + 1, cur \o ChunkBytes(str[i], tsOf), acc)
    IN IF str = <<>> THEN <<>> ELSE go(1, <<>>, <<>>)

DirOf(str, tsOf) ==
    LET fs == FilesOf(str, tsOf) IN [id \in 0..(Len(fs) - 1) |-> fs[id + 1]]

\* the headers that a scan of an input of the model reads: the headers of
\* the blocks and, where a frame was cut off after five bytes, the 80 bytes
\* that follow the three bytes read as the rest of its length
ScannedHeaders ==
    {HeaderTable[h, ts] : h \in 0..NumBlocks, ts \in TsSet}
        \cup {Slice(FilesOf(<<Cut>> \o run, FixedTs)[1], FrameLen, FrameLen + HdrLen) :
                  run \in UNION {[1..l -> Alphabet(n) \ {Eof}] :
                                    l \in 0..(MaxStream - 1), n \in 1..NumBlocks}}

\* calc_hash_str of these headers, computed once
HashStrTable == [hd \in ScannedHeaders |-> calc_hash_str(hd)]

\* calc_hash_str, looked up where the table t holds the header
Lookup(t, hd) == IF hd \in DOMAIN t THEN t[hd] ELSE calc_hash_str(hd)

HashStr(hd) == Lookup(HashStrTable, hd)

HashTable == [h \in 0..NumBlocks, ts \in TsSet |-> HashStrTable[HeaderTable[h, ts]]]

\* the index get_block_hashes loads: the hashes of blocks 0..n-1
IndexOf(n, tsOf) == [i \in 1..n |-> HashTable[i - 1, tsOf[i - 1]]]

InOrderStream(n) == [i \in 1..n |-> Rec(i - 1)]
ReverseStream(n) == [i \in 1..n |-> Rec(n - i)]

(***************************************************************************)
(* State.                                                                  *)
(*   settings, gaiaindex, inputDir, inputGlobbable, tz: the configuration, *)
(*     the list of hashes get_block_hashes has loaded, the input directory *)
(*     (file id -> bytes), whether glob lists the directory's files (it    *)
(*     does not when the input path itself holds glob metacharacters) and  *)
(*     the offset of the machine's local time from UTC.  They never        *)
(*     change.                                                             *)
(*   stream: the chunks inputDir was built from (for stating the claims).  *)
(*   copier: the fields of the BlockDataCopier object.                     *)
(*   outDir, mtime: the output files written (name -> records written,     *)
(*     each the three buffers of one writeBlock) and the modification      *)
(*     times set by os.utime.                                              *)
(*   pc: where the program is; err: the exception that ended it.           *)
(***************************************************************************)
VARIABLES settings, gaiaindex, inputDir, inputGlobbable, tz, stream,
          copier, outDir, mtime, pc, err

env == <<settings, gaiaindex, inputDir, inputGlobbable, tz, stream>>
vars == <<settings, gaiaindex, inputDir, inputGlobbable, tz, stream,
          copier, outDir, mtime, pc, err>>

NoName == [kind |-> "none", n |-> 0]
ClosedIn == [open |-> FALSE, pos |-> Num(0)]

\* the object before BlockDataCopier.__init__ has run
NoCopier ==
    [inFn |-> 0, inF |-> ClosedIn, outFn |-> 0, outsz |-> 0, outF |-> FALSE,
     outFname |-> NoName, gaiaCountIn |-> 0, gaiaCountOut |-> 0,
     lastDate |-> InitialLastDate, highTS |-> Num(0), timestampSplit |-> FALSE,
     fileOutput |-> TRUE, setFileTime |-> FALSE, maxOutSz |-> 0,
     blockExtents |-> EmptyDict, outOfOrderData |-> EmptyDict,
     outOfOrderSize |-> Num(0), hash_str |-> <<>>]

Settings(out, outFile, maxOut, cacheSz, split, stamp, genesis) ==
    [output |-> out, output_file |-> outFile, max_out_sz |-> maxOut,
     out_of_order_cache_sz |-> cacheSz, split_timestamp |-> split,
     file_timestamp |-> stamp, genesis |-> genesis, netmagic |-> DefaultMagic]

Start(s, n, tsOf, str, globbable, offset) ==
    /\ settings = s
    /\ tz = offset
    /\ gaiaindex = IndexOf(n, tsOf)
    /\ inputDir = DirOf(str, tsOf)
    /\ inputGlobbable = globbable
    /\ stream = str
    /\ copier = NoCopier
    /\ outDir = EmptyDict
    /\ mtime = EmptyDict
    /\ pc = "main"
    /\ err = "none"

\* any stream, any cache ceiling; output directory, default size, no split:
\* line 169 reads the month of a record only when split_timestamp is set,
\* so one local time stands for all
InitScan ==
    \E n \in 1..NumBlocks, globbable \in BOOLEAN, cacheSz \in Ceilings :
        \E str \in Streams(n) :
            Start(Settings(TRUE, FALSE, DefaultMaxOutSz, cacheSz, 0, 0,
                           HashTable[0, FixedTs[0]]),
                  n, FixedTs, str, globbable, 0)

\* every output policy and every choice of timestamps; all blocks, once each
InitWrite ==
    \E tsOf \in [0..NumBlocks -> TsSet],
       maxOut \in MaxOutChoices, dirMode \in BOOLEAN, split \in 0..1, stamp \in 0..1,
       rev \in BOOLEAN, globbable \in BOOLEAN, offset \in TzOffsets :
        /\ tsOf[NumBlocks] = TsChoices[2]
        /\ Start(Settings(dirMode, ~dirMode, maxOut, 0, split, stamp,
                          HashTable[0, tsOf[0]]),
                 NumBlocks, tsOf,
                 IF rev THEN ReverseStream(NumBlocks) ELSE InOrderStream(NumBlocks),
                 globbable, offset)

\* the settings the main program checks: no output at all, both outputs, and
\* a genesis hash that the index does not hold
InitMain ==
    \E out \in BOOLEAN, outFile \in BOOLEAN, known \in BOOLEAN, globbable \in BOOLEAN,
       rev \in BOOLEAN :
        Start(Settings(out, outFile, DefaultMaxOutSz, 0, 0, 0,
                       HashTable[IF known THEN 0 ELSE NumBlocks, FixedTs[0]]),
              NumBlocks, FixedTs,
              IF rev THEN ReverseStream(NumBlocks) ELSE InOrderStream(NumBlocks),
              globbable, 0)

Init == InitScan \/ InitWrite \/ InitMain

(***************************************************************************)
(* The main program, from the check of the output settings on; the hash    *)
(* list is loaded already.                                                 *)
(***************************************************************************)
\* mkblockmap: hash -> height; a later height replaces an earlier one
mkblockmap(index) ==
    [hash \in {index[i] : i \in 1..Len(index)} |->
        (CHOOSE i \in 1..Len(index) :
            index[i] = hash /\ \A j \in 1..Len(index) : index[j] = hash => j <= i) - 1]

DigitChars == <<"0", "1", "2", "3", "4", "5", "6", "7", "8", "9">>

\* "gaia%05d.dat" % fn, as a sequence of characters, for fn < 100000
FileName(fn) ==
    <<"g", "a", "i", "a">>
        \o [i \in 1..5 |->
               DigitChars[((fn \div (CASE i = 1 -> 10000 [] i = 2 -> 1000 [] i = 3 -> 100
                                       [] i = 4 -> 10 [] OTHER -> 1)) % 10) + 1]]
        \o <<".", "d", "a", "t">>

\* int(s) for a sequence of characters: a value, or ValueError
PyInt(s) ==
    LET digit(ch) == \E d \in 1..10 : DigitChars[d] = ch
        val(ch) == (CHOOSE d \in 1..10 : DigitChars[d] = ch) - 1
        RECURSIVE go(_, _)
        go(i, acc) == IF i > Len(s) THEN acc ELSE go(i + 1, 10 * acc + val(s[i]))
    IN IF s # <<>> /\ \A i \in 1..Len(s) : digit(s[i])
       THEN [ok |-> TRUE, v |-> go(1, 0)]
       ELSE [ok |-> FALSE, v |-> 0]

\* min of a non-empty set of file ids: the names are of one width, so the
\* lexicographic minimum of the names is the name of the least id
MinId(ids) == CHOOSE i \in ids : \A j \in ids : i <= j

\* getFirstBlockFileId: [ok, v]; not ok is the ValueError of int()
getFirstBlockFileId(dir, globbable) ==
    LET gaiaFnList == IF globbable THEN DOMAIN dir ELSE {}
    IN IF gaiaFnList = {} THEN [ok |-> TRUE, v |-> 0]
       ELSE PyInt(Slice(FileName(MinId(gaiaFnList)), 3, 8))

\* BlockDataCopier.__init__, given the first input file id
NewCopier(s, firstId) ==
    [inFn |-> firstId, inF |-> ClosedIn, outFn |-> 0, outsz |-> 0, outF |-> FALSE,
     outFname |-> NoName, gaiaCountIn |-> 0, gaiaCountOut |-> 0,
     lastDate |-> InitialLastDate, highTS |-> Num(BaseHighTS),
     timestampSplit |-> (s.split_timestamp # 0),
     fileOutput |-> ~s.output,
     setFileTime |-> (s.file_timestamp # 0),
     maxOutSz |-> s.max_out_sz,
     blockExtents |-> EmptyDict, outOfOrderData |-> EmptyDict,
     outOfOrderSize |-> Num(0), hash_str |-> <<>>]

\* a main program that reports the missing genesis hash and runs all the same
main_runs_anyway(s, index) ==
    IF ~s.output_file /\ ~s.output THEN "exit1" ELSE "construct"

\* lines 339-350: where the main program goes from the check of the output
\* settings: sys.exit(1), the report of a missing genesis hash (and the end
\* of the program), or the constructor and run()
main(s, index) ==
    IF ~s.output_file /\ ~s.output THEN "exit1"
    ELSE IF ~(s.genesis \in DOMAIN mkblockmap(index)) THEN "nogenesis"
    ELSE "construct"

Main ==
    /\ pc = "main"
    /\ pc' = main(settings, gaiaindex)
    /\ UNCHANGED <<env, copier, outDir, mtime, err>>

\* BlockDataCopier(settings, gaiaindex, gaiamap), then run() is entered
Construct ==
    /\ pc = "construct"
    /\ LET first == getFirstBlockFileId(inputDir, inputGlobbable)
       IN IF first.ok
          THEN /\ copier' = NewCopier(settings, first.v)
               /\ pc' = "loop"
               /\ err' = err
          ELSE /\ pc' = "crashed"
               /\ err' = "ValueError"
               /\ copier' = copier
    /\ UNCHANGED <<env, outDir, mtime>>

(***************************************************************************)
(* BlockDataCopier.  The operators below are the methods as functions of   *)
(* the machine m = [copier, outDir, mtime, pc, err] and of the environment *)
(* e = [settings, inputDir, gaiaindex, tz]; the actions apply them to the  *)
(* state.  An exception that nothing catches ends the program: pc becomes  *)
(* "crashed", err names the exception, and what was assigned before it     *)
(* stays assigned.                                                         *)
(***************************************************************************)
Machine == [copier |-> copier, outDir |-> outDir, mtime |-> mtime, pc |-> pc, err |-> err]
Env == [settings |-> settings, inputDir |-> inputDir, gaiaindex |-> gaiaindex, tz |-> tz]

Crash(m, exc) == [m EXCEPT !.pc = "crashed", !.err = exc]

\* f.read(n) at position pos of a file: ValueError for n < -1, the rest of
\* the file for n = -1, at most n bytes otherwise
\* the index of position pos in a file of size bytes: the end, when pos is
\* at the end or past it
Clip(pos, size) == IF NumLess(pos, Num(size)) THEN NumVal(pos) ELSE size

ReadData(pos, data) == [ok |-> TRUE, data |-> data, pos |-> NumAdd(pos, Num(Len(data)))]

ReadAt(bytes, pos, n) ==
    IF NumLess(n, Num(-1)) THEN [ok |-> FALSE, data |-> <<>>, pos |-> pos]
    ELSE IF n = Num(-1) THEN ReadData(pos, SliceFrom(bytes, Clip(pos, Len(bytes))))
    ELSE ReadData(pos, Slice(bytes, Clip(pos, Len(bytes)),
                             Clip(pos, Len(bytes)) + Clip(n, Len(bytes))))

\* inhdr[0] == NUL character: a byte of a bytes object is an int, and no int
\* equals a str
ByteEqStr(b, str) == FALSE

\* the name writeBlock opens: settings['output_file'], or gaia%05d.dat in
\* the directory settings['output']
OutName(c) ==
    IF c.fileOutput THEN [kind |-> "file", n |-> 0] ELSE [kind |-> "dir", n |-> c.outFn]

\* a rotation that starts the high timestamp afresh for the next file
CloseOutput_restarts_highTS(m) ==
    [m EXCEPT
        !.mtime = IF m.copier.setFileTime
                  THEN Put(@, m.copier.outFname, m.copier.highTS) ELSE @,
        !.copier = [@ EXCEPT !.outF = FALSE, !.outFname = NoName,
                             !.outFn = @ + 1, !.outsz = 0, !.highTS = Num(BaseHighTS)]]

\* lines 160-166 and 173-179: close the output file, stamp it, go to the next
CloseOutput(m) ==
    [m EXCEPT
        !.mtime = IF m.copier.setFileTime
                  THEN Put(@, m.copier.outFname, m.copier.highTS) ELSE @,
        !.copier = [@ EXCEPT !.outF = FALSE, !.outFname = NoName,
                             !.outFn = @ + 1, !.outsz = 0]]

\* lines 181-187: open(outFname, "wb") creates the file or empties it
OpenOutput(m) ==
    LET name == OutName(m.copier)
    IN [m EXCEPT
           !.outDir = Put(@, name, <<>>),
           !.mtime = Del(@, name),
           !.copier = [@ EXCEPT !.outF = TRUE, !.outFname = name]]

\* a size test that leaves out the block about to be written
sizeRotation_without_block(c, blockSizeOnDisk) ==
    ~c.fileOutput /\ c.outsz > c.maxOutSz

\* line 159
sizeRotation(c, blockSizeOnDisk) ==
    ~c.fileOutput /\ (c.outsz + blockSizeOnDisk) > c.maxOutSz

\* a month test that also takes the month of the last record for a new one
timeRotation_same_month(c, dt) ==
    c.timestampSplit /\ ~DateGT(c.lastDate, dt.dt_ym)

\* line 169
timeRotation(c, dt) ==
    c.timestampSplit /\ DateGT(dt.dt_ym, c.lastDate)

writeBlock(e, m, inhdr, gaia_hdr, rawblock) ==
    LET blockSizeOnDisk == Len(inhdr) + Len(gaia_hdr) + Len(rawblock)
        sizeRot == sizeRotation(m.copier, blockSizeOnDisk)
    IN IF sizeRot /\ ~m.copier.outF
       THEN Crash(m, "AttributeError")
       ELSE
       LET m1 == IF sizeRot THEN CloseOutput(m) ELSE m
       IN IF Len(Slice(gaia_hdr, TimeOffset, TimeOffset + 4)) # 4
          THEN Crash(m1, "struct.error")
          ELSE
          LET dt == get_gaia_dt(gaia_hdr, e.tz)
              newMonth == timeRotation(m1.copier, dt)
              m2 == IF newMonth
                    THEN LET d == [m1 EXCEPT !.copier.lastDate = dt.dt_ym]
                         IN IF d.copier.outF THEN CloseOutput(d) ELSE d
                    ELSE m1
              m3 == IF ~m2.copier.outF THEN OpenOutput(m2) ELSE m2
          IN [m3 EXCEPT
                 !.outDir[m3.copier.outFname] =
                     Append(@, [inhdr |-> inhdr, gaia_hdr |-> gaia_hdr,
                                rawblock |-> rawblock]),
                 !.copier = [@ EXCEPT
                     !.outsz = @ + Len(inhdr) + Len(gaia_hdr) + Len(rawblock),
                     !.gaiaCountOut = @ + 1,
                     !.highTS = IF NumLess(@, dt.nTime) THEN dt.nTime ELSE @]]

\* fetchBlock: open the extent's file, seek, read; [ok, data, pos]
fetchBlock(e, extent) == ReadAt(e.inputDir[extent.fn], extent.offset, extent.size)

\* a loop that reads on after every write, whatever the extent map holds
AfterWrite_reads_on(m) ==
    IF m.pc = "crashed" THEN m ELSE [m EXCEPT !.pc = "loop"]

\* after a record was written: the drain loop goes on, or the main loop does
AfterWrite(m) ==
    IF m.pc = "crashed" THEN m
    ELSE [m EXCEPT !.pc = IF m.copier.gaiaCountOut \in DOMAIN m.copier.blockExtents
                          THEN "drain" ELSE "loop"]

\* a drain that fetches with the handle of the scan, and leaves it where the
\* fetch has ended
copyOneBlock_on_scan_handle(e, m) ==
    LET c == m.copier
        extent == c.blockExtents[c.gaiaCountOut]
        m1 == [m EXCEPT !.copier.blockExtents = Del(@, c.gaiaCountOut)]
    IN IF c.gaiaCountOut \in DOMAIN c.outOfOrderData
       THEN LET rawblock == c.outOfOrderData[c.gaiaCountOut]
                m2 == [m1 EXCEPT !.copier.outOfOrderData = Del(@, c.gaiaCountOut),
                                 !.copier.outOfOrderSize = NumSub(@, Num(Len(rawblock)))]
            IN AfterWrite(writeBlock(e, m2, extent.inhdr, extent.gaiahdr, rawblock))
       ELSE LET r == fetchBlock(e, extent)
                m2 == [m1 EXCEPT !.copier.inFn = extent.fn,
                                 !.copier.inF = [open |-> TRUE, pos |-> r.pos]]
            IN IF ~r.ok THEN Crash(m2, "ValueError")
               ELSE AfterWrite(writeBlock(e, m2, extent.inhdr, extent.gaiahdr, r.data))

\* one turn of the loop of lines 272-273
copyOneBlock(e, m) ==
    LET c == m.copier
        extent == c.blockExtents[c.gaiaCountOut]
        m1 == [m EXCEPT !.copier.blockExtents = Del(@, c.gaiaCountOut)]
    IN IF c.gaiaCountOut \in DOMAIN c.outOfOrderData
       THEN LET rawblock == c.outOfOrderData[c.gaiaCountOut]
                m2 == [m1 EXCEPT !.copier.outOfOrderData = Del(@, c.gaiaCountOut),
                                 !.copier.outOfOrderSize = NumSub(@, Num(Len(rawblock)))]
            IN AfterWrite(writeBlock(e, m2, extent.inhdr, extent.gaiahdr, rawblock))
       ELSE LET r == fetchBlock(e, extent)
            IN IF ~r.ok THEN Crash(m1, "ValueError")
               ELSE AfterWrite(writeBlock(e, m1, extent.inhdr, extent.gaiahdr, r.data))

(***************************************************************************)
(* One turn of the main loop of run(), lines 224-284.                      *)
(***************************************************************************)
\* lines 225-241 and 248: the file is opened if none is open, and the
\* 8-byte frame is read
FrameRead(bytes, rd) ==
    [bytes |-> bytes, inhdr |-> rd.data, posAfterFrame |-> rd.pos,
     inMagic |-> Slice(rd.data, 0, MagicLen),
     inLenLE |-> SliceFrom(rd.data, MagicLen)]

FrameAt(bytes, pos) == FrameRead(bytes, ReadAt(bytes, pos, Num(FrameLen)))

Frame(e, m) ==
    FrameAt(e.inputDir[m.copier.inFn],
            IF m.copier.inF.open THEN m.copier.inF.pos ELSE Num(0))

\* lines 249-254: the length, the header, the extent and the hash of a frame
\* that carries the magic and has all its 8 bytes
RecordRead(m, f, inLen, hd) ==
    [bytes |-> f.bytes, inhdr |-> f.inhdr, inLen |-> inLen,
     gaia_hdr |-> hd.data, posAfterHdr |-> hd.pos,
     inExtent |-> [fn |-> m.copier.inFn, offset |-> hd.pos, inhdr |-> f.inhdr,
                   gaiahdr |-> hd.data, size |-> inLen],
     hash_str |-> HashStr(hd.data)]

RecordOf(m, f) ==
    RecordRead(m, f, NumSub(UnLE32(f.inLenLE), Num(HdrLen)),
               ReadAt(f.bytes, f.posAfterFrame, Num(HdrLen)))

Record(e, m) == RecordOf(m, Frame(e, m))

\* which way the turn goes
BranchKnown(c, gaiamap, hash_str) ==
    IF hash_str \notin DOMAIN gaiamap THEN "unknown"
    ELSE IF c.gaiaCountOut = gaiamap[hash_str] THEN "inorder"
    ELSE "outoforder"

BranchOf(e, m, f) ==
    IF ~(m.copier.gaiaCountOut < Len(e.gaiaindex)) THEN "done"
    ELSE IF ~m.copier.inF.open /\ m.copier.inFn \notin DOMAIN e.inputDir THEN "nofile"
    ELSE IF f.inhdr = <<>> \/ ByteEqStr(f.inhdr[1], "NUL") THEN "eof"
    ELSE IF f.inMagic # e.settings.netmagic THEN "resync"
    ELSE IF Len(f.inLenLE) # 4 THEN "badframe"
    ELSE BranchKnown(m.copier, mkblockmap(e.gaiaindex), RecordOf(m, f).hash_str)

Branch(e, m) == BranchOf(e, m, Frame(e, m))

\* self.inF.seek(delta, os.SEEK_CUR) from position pos: OSError below 0
SeekCur(m, pos, delta) ==
    IF NumLess(NumAdd(pos, delta), Num(0))
    THEN Crash([m EXCEPT !.copier.inF = [open |-> TRUE, pos |-> pos]], "OSError")
    ELSE [m EXCEPT !.copier.inF = [open |-> TRUE, pos |-> NumAdd(pos, delta)]]

\* line 286
run_done(e, m) == [m EXCEPT !.pc = "done"]

\* lines 228-232
run_nofile(e, m) == [m EXCEPT !.pc = "premature"]

\* lines 235-239
run_eof(e, m) ==
    [m EXCEPT !.copier.inF = ClosedIn, !.copier.inFn = @ + 1]

\* lines 242-247
run_resync(e, m) == SeekCur(m, Frame(e, m).posAfterFrame, Num(-ResyncBack))

\* line 249 on a frame of fewer than 8 bytes
run_badframe(e, m) ==
    Crash([m EXCEPT !.copier.inF = [open |-> TRUE, pos |-> Frame(e, m).posAfterFrame]],
          "struct.error")

\* a skip that takes the declared length for the payload length
run_unknown_skips_declared(e, m, f) ==
    SeekCur([m EXCEPT !.copier.hash_str = f.hash_str], f.posAfterHdr,
            NumAdd(f.inLen, Num(HdrLen)))

\* lines 254-261, on the record f
run_unknown_on(e, m, f) ==
    SeekCur([m EXCEPT !.copier.hash_str = f.hash_str], f.posAfterHdr, f.inLen)

run_unknown(e, m) == run_unknown_on(e, m, Record(e, m))

\* lines 263-273, up to the first turn of the drain loop, on the record f
\* and the result r of the read of its payload
run_inorder_on(e, m, f, r) ==
    IF ~r.ok THEN Crash(m, "ValueError")
    ELSE AfterWrite(writeBlock(e, m, f.inhdr, f.gaia_hdr, r.data))

run_inorder_read(e, m, f, r) ==
    run_inorder_on(e, [m EXCEPT !.copier.hash_str = f.hash_str,
                                !.copier.gaiaCountIn = @ + 1,
                                !.copier.inF = [open |-> TRUE, pos |-> r.pos]], f, r)

run_inorder_of(e, m, f) ==
    run_inorder_read(e, m, f, ReadAt(f.bytes, f.posAfterHdr, f.inLen))

run_inorder(e, m) == run_inorder_of(e, m, Record(e, m))

\* a test that lets the total reach the ceiling before it refuses
cacheHasSpace_inclusive(c, s) ==
    ~NumLess(Num(s.out_of_order_cache_sz), c.outOfOrderSize)

\* line 277
cacheHasSpace(c, s) == NumLess(c.outOfOrderSize, Num(s.out_of_order_cache_sz))

\* lines 281-282, on the result r of the read of the payload
run_outoforder_cache(m, f, gaiaHeight, r) ==
    IF ~r.ok THEN Crash(m, "ValueError")
    ELSE [m EXCEPT
             !.copier.inF = [open |-> TRUE, pos |-> r.pos],
             !.copier.outOfOrderData = Put(@, gaiaHeight, r.data),
             !.copier.outOfOrderSize = NumAdd(@, f.inLen)]

\* lines 277-284, on the machine after line 276
run_outoforder_on(e, m, f, gaiaHeight) ==
    IF cacheHasSpace(m.copier, e.settings)
    THEN run_outoforder_cache(m, f, gaiaHeight, ReadAt(f.bytes, f.posAfterHdr, f.inLen))
    ELSE SeekCur(m, f.posAfterHdr, f.inLen)

\* lines 263-265 and 275-276, on the record f
run_outoforder_at(e, m, f, gaiaHeight) ==
    run_outoforder_on(e, [m EXCEPT !.copier.hash_str = f.hash_str,
                                   !.copier.gaiaCountIn = @ + 1,
                                   !.copier.inF = [open |-> TRUE, pos |-> f.posAfterHdr],
                                   !.copier.blockExtents = Put(@, gaiaHeight, f.inExtent)],
                      f, gaiaHeight)

run_outoforder_of(e, m, f) ==
    run_outoforder_at(e, m, f, mkblockmap(e.gaiaindex)[f.hash_str])

\* lines 263-265 and 275-284
run_outoforder(e, m) == run_outoforder_of(e, m, Record(e, m))

\* the next machine: one turn of the main loop, or one of the drain loop
Step(e, m) ==
    IF m.pc = "drain" THEN copyOneBlock(e, m)
    ELSE IF m.pc # "loop" THEN m
    ELSE LET b == Branch(e, m)
         IN CASE b = "done" -> run_done(e, m)
              [] b = "nofile" -> run_nofile(e, m)
              [] b = "eof" -> run_eof(e, m)
              [] b = "resync" -> run_resync(e, m)
              [] b = "badframe" -> run_badframe(e, m)
              [] b = "unknown" -> run_unknown(e, m)
              [] b = "inorder" -> run_inorder(e, m)
              [] OTHER -> run_outoforder(e, m)

Set(m) ==
    /\ copier' = m.copier
    /\ outDir' = m.outDir
    /\ mtime' = m.mtime
    /\ pc' = m.pc
    /\ err' = m.err
    /\ UNCHANGED env

Turn(b) == pc = "loop" /\ Branch(Env, Machine) = b

Done == Turn("done") /\ Set(run_done(Env, Machine))
PrematureEnd == Turn("nofile") /\ Set(run_nofile(Env, Machine))
EndOfFile == Turn("eof") /\ Set(run_eof(Env, Machine))
Resync == Turn("resync") /\ Set(run_resync(Env, Machine))
BadFrame == Turn("badframe") /\ Set(run_badframe(Env, Machine))
SkipUnknown == Turn("unknown") /\ Set(run_unknown(Env, Machine))
InOrder == Turn("inorder") /\ Set(run_inorder(Env, Machine))
OutOfOrder == Turn("outoforder") /\ Set(run_outoforder(Env, Machine))
CopyOneBlock == pc = "drain" /\ Set(copyOneBlock(Env, Machine))

Next ==
    \/ Main
    \/ Construct
    \/ Done
    \/ PrematureEnd
    \/ EndOfFile
    \/ Resync
    \/ BadFrame
    \/ SkipUnknown
    \/ InOrder
    \/ OutOfOrder
    \/ CopyOneBlock

Spec == Init /\ [][Next]_vars

(***************************************************************************)
(* What the claims speak of.                                               *)
(***************************************************************************)
gaiamap == mkblockmap(gaiaindex)
N == Len(gaiaindex)

\* run() was entered: the constructor has returned
Constructed == copier # NoCopier

\* the names of the output files, in file order
OutNames == DOMAIN outDir

\* the records of the output files, concatenated in file order
Written ==
    LET RECURSIVE cat(_)
        cat(names) ==
            IF names = {} THEN <<>>
            ELSE LET first == CHOOSE a \in names : \A b \in names : a.n <= b.n
                 IN outDir[first] \o cat(names \ {first})
    IN cat(OutNames)

RecSize(r) == Len(r.inhdr) + Len(r.gaia_hdr) + Len(r.rawblock)

FileSize(recs) ==
    LET RECURSIVE sum(_)
        sum(i) == IF i > Len(recs) THEN 0 ELSE RecSize(recs[i]) + sum(i + 1)
    IN sum(1)

RecTime(r) == get_gaia_dt(r.gaia_hdr, tz).nTime

RecMonth(r) == get_gaia_dt(r.gaia_hdr, tz).dt_ym

MaxTime(recs, floor) ==
    LET RECURSIVE mx(_)
        mx(i) == IF i > Len(recs) THEN floor ELSE NumMax(RecTime(recs[i]), mx(i + 1))
    IN mx(1)

\* r is the well-formed record of the block of height h, as the input holds it
IsRecordOf(r, h) ==
    /\ r.inhdr = DefaultMagic \o LE32(HdrLen + Len(Payload(h)))
    /\ HashStr(r.gaia_hdr) = gaiaindex[h + 1]
    /\ r.rawblock = Payload(h)

\* the number of chunks of the stream that are the well-formed record of h
Count(h) == Cardinality({i \in 1..Len(stream) : stream[i] = Rec(h)})

\* the input holds well-formed records of known blocks and nothing else
OnlyKnownRecords ==
    \A i \in 1..Len(stream) :
        stream[i].k = "eof" \/ \E h \in 0..(N - 1) : stream[i] = Rec(h)

\* the loop of run() has ended, one way or another
RunEnded == Constructed /\ pc \in {"done", "premature", "crashed"}

\* the next machine of a machine at the head of the main loop is the same
\* machine: the loop turns forever without a change
Stuck == pc = "loop" /\ Step(Env, Machine) = Machine

(***************************************************************************)
(* C1.  Order invariant: when the input holds the well-formed records of   *)
(* heights 0..N-1, once each, in any order and over any files, run() ends  *)
(* with the cursor gaiaCountOut at N and with the output files holding, in *)
(* file order, the records of heights 0, 1, ..., N-1.                      *)
(* Violated: see C19 (and C11, C20).                                       *)
(***************************************************************************)
C1_OrderInvariant ==
    (OnlyKnownRecords /\ (\A h \in 0..(N - 1) : Count(h) = 1) /\ RunEnded)
        => /\ pc = "done"
           /\ copier.gaiaCountOut = N
           /\ Len(Written) = N
           /\ \A k \in 1..N : IsRecordOf(Written[k], k - 1)

(***************************************************************************)
(* C2.  Cache-boundedness as claimed: the running byte total of the        *)
(* out-of-order cache is never above the configured ceiling.               *)
(***************************************************************************)
C2_NeverAboveCeiling ==
    ~NumLess(Num(settings.out_of_order_cache_sz), copier.outOfOrderSize)

(***************************************************************************)
(* C2 as amended: the ceiling is tested before an insertion and not after  *)
(* it.  The running total grows only from a value below the ceiling (so it *)
(* can end above the ceiling, by less than the declared payload size of    *)
(* the record just cached), and with a ceiling of 0 it stays 0.            *)
(***************************************************************************)
C2_GrowsOnlyBelowCeiling ==
    [][/\ (NumLess(copier.outOfOrderSize, copier'.outOfOrderSize)
             => NumLess(copier.outOfOrderSize, Num(settings.out_of_order_cache_sz)))
       /\ (settings.out_of_order_cache_sz = 0
             => copier'.outOfOrderSize = Num(0) /\ copier'.outOfOrderData = EmptyDict)]_vars

C2_Witness ==
    /\ settings.out_of_order_cache_sz > 0
    /\ NumLess(Num(settings.out_of_order_cache_sz), copier.outOfOrderSize)
    /\ DOMAIN copier.outOfOrderData # {}

(***************************************************************************)
(* C3.  Drain completeness: when the loop has ended on an input of         *)
(* well-formed records of known blocks that holds every height at least    *)
(* once, the cursor is at N and the extent map is empty.                   *)
(* Violated: see C15.                                                      *)
(***************************************************************************)
C3_DrainComplete ==
    (/\ OnlyKnownRecords
     /\ \A h \in 0..(N - 1) : Count(h) >= 1
     /\ Constructed
     /\ pc \in {"done", "premature"})
        => copier.gaiaCountOut = N /\ copier.blockExtents = EmptyDict

(***************************************************************************)
(* C4.  Unknown-record tolerance: a turn of the loop that meets a          *)
(* well-formed record (a whole header, a declared length of 80 at least)   *)
(* whose hash the index does not hold changes nothing but the scan         *)
(* position and the hash last computed: no counter moves, nothing is       *)
(* written, stamped, recorded or cached, and the scan goes on at the byte  *)
(* after the record's payload.                                             *)
(***************************************************************************)
UnknownRecordAhead ==
    /\ pc = "loop"
    /\ Branch(Env, Machine) = "unknown"
    /\ Len(Record(Env, Machine).gaia_hdr) = HdrLen
    /\ ~NumLess(Record(Env, Machine).inLen, Num(0))

ScanPos == IF copier.inF.open THEN copier.inF.pos ELSE Num(0)

C4_UnknownRecordSkipped ==
    [][UnknownRecordAhead =>
          /\ pc' = "loop"
          /\ copier' = [copier EXCEPT
                 !.hash_str = Record(Env, Machine).hash_str,
                 !.inF = [open |-> TRUE,
                          pos |-> NumAdd(NumAdd(ScanPos, Num(FrameLen + HdrLen)),
                                         Record(Env, Machine).inLen)]]
          /\ copier'.hash_str \notin DOMAIN gaiamap
          /\ outDir' = outDir
          /\ mtime' = mtime]_vars

C4_Witness ==
    /\ pc = "loop"
    /\ copier.hash_str # <<>>
    /\ copier.hash_str \notin DOMAIN gaiamap
    /\ copier.inF.open
    /\ copier.inF.pos = Num(FrameLen + HdrLen + Len(Payload(NumBlocks)))
    /\ copier.gaiaCountIn = 0

(***************************************************************************)
(* C5.  Termination: whatever the input files hold, the loop of run()      *)
(* eventually stops; it never turns forever without advancing.  Stated as  *)
(* what a finite run refutes: no turn of the main loop leaves the whole    *)
(* state as it was (a turn that does is repeated forever).                 *)
(***************************************************************************)
C5_Termination == Constructed => ~Stuck

(***************************************************************************)
(* C6.  Cache-independence of the output: from the start of run(), the     *)
(* output files the run ends with (or turns forever with) are the same for *)
(* every cache ceiling.                                                    *)
(* Violated: see C9.                                                       *)
(***************************************************************************)
\* the machine the run ends in, or turns forever in
Final(e, m) ==
    LET RECURSIVE go(_)
        go(x) ==
            IF x.pc \notin {"loop", "drain"} THEN x
            ELSE LET y == Step(e, x) IN IF y = x THEN x ELSE go(y)
    IN go(m)

WithCeiling(cz) ==
    [Env EXCEPT !.settings = [@ EXCEPT !.out_of_order_cache_sz = cz]]

AtStartOfRun == pc = "loop" /\ copier = NewCopier(settings, copier.inFn)

C6_CacheIndependent ==
    AtStartOfRun =>
        \A cz \in Ceilings :
            Final(WithCeiling(cz), Machine).outDir = Final(Env, Machine).outDir

(***************************************************************************)
(* C7.  Size-bounded rotation, with an output directory: a record that     *)
(* would take the open output file past max_out_sz closes that file and    *)
(* becomes the first record of the next numbered file, and the closed file *)
(* is left as it was; so every output file of more than one record holds   *)
(* max_out_sz bytes at most.  (A record is one element of a file of the    *)
(* model: writeBlock writes its three buffers to one file handle.)         *)
(***************************************************************************)
WritesRecord == copier'.gaiaCountOut = copier.gaiaCountOut + 1

LastWritten == outDir'[copier'.outFname][Len(outDir'[copier'.outFname])]

SizeRotationStep ==
    (/\ WritesRecord
     /\ ~copier.fileOutput
     /\ copier.outF
     /\ copier.outsz + RecSize(LastWritten) > settings.max_out_sz)
        => /\ copier'.outFn = copier.outFn + 1
           /\ copier'.outFname = [kind |-> "dir", n |-> copier.outFn + 1]
           /\ outDir'[copier'.outFname] = <<LastWritten>>
           /\ copier'.outsz = RecSize(LastWritten)
           /\ outDir'[copier.outFname] = outDir[copier.outFname]

NoRotationStep ==
    (/\ WritesRecord
     /\ ~copier.fileOutput
     /\ copier.outF
     /\ ~copier.timestampSplit
     /\ copier.outsz + RecSize(LastWritten) <= settings.max_out_sz)
        => /\ copier'.outFn = copier.outFn
           /\ copier'.outFname = copier.outFname
           /\ outDir'[copier.outFname] = Append(outDir[copier.outFname], LastWritten)

FilesWithinSize ==
    \A name \in OutNames :
        (name.kind = "dir" /\ Len(outDir[name]) > 1)
            => FileSize(outDir[name]) <= settings.max_out_sz

C7_SizeRotation == [](FilesWithinSize) /\ [][SizeRotationStep /\ NoRotationStep]_vars

C7_Witness ==
    /\ \E name \in OutNames : name.kind = "dir" /\ Len(outDir[name]) > 1
    /\ copier.outFn >= 1
    /\ copier.outF
    /\ Len(outDir[copier.outFname]) = 1
    /\ FileSize(outDir[[kind |-> "dir", n |-> 0]]) + RecSize(outDir[copier.outFname][1])
           > settings.max_out_sz

(***************************************************************************)
(* C8.  Genesis check as claimed: when the genesis hash is not in the      *)
(* loaded index (and an output is configured), the main program goes on to *)
(* construct the copier and to run it.                                     *)
(***************************************************************************)
GenesisAbsent ==
    /\ settings.output_file \/ settings.output
    /\ settings.genesis \notin DOMAIN gaiamap

C8_RunsWithoutGenesis ==
    (GenesisAbsent /\ pc # "main")
        => pc \in {"construct", "loop", "drain", "done", "premature", "crashed"}

(***************************************************************************)
(* C8 as amended: when the genesis hash is not in the loaded index, the    *)
(* absence is reported and the program ends there: the copier is never     *)
(* constructed, run() is not executed and nothing is written.              *)
(***************************************************************************)
C8_NoRunWithoutGenesis ==
    (GenesisAbsent /\ pc # "main")
        => pc = "nogenesis" /\ ~Constructed /\ outDir = EmptyDict

C8_Witness == GenesisAbsent /\ pc = "nogenesis"

(***************************************************************************)
(* C9.  Corrupt framing: a frame with the magic that declares a total      *)
(* length below 80 ends the run at that record: the loop does not go on,   *)
(* no extent and no cache entry is made, and nothing is written.           *)
(***************************************************************************)
CorruptFrameAhead ==
    /\ pc = "loop"
    /\ Branch(Env, Machine) \in {"unknown", "inorder", "outoforder"}
    /\ NumLess(Record(Env, Machine).inLen, Num(0))

C9_CorruptFramingAborts ==
    [][CorruptFrameAhead =>
          /\ pc' \notin {"loop", "drain"}
          /\ copier'.blockExtents = copier.blockExtents
          /\ copier'.outOfOrderData = copier.outOfOrderData
          /\ copier'.gaiaCountOut = copier.gaiaCountOut
          /\ outDir' = outDir]_vars

(***************************************************************************)
(* C10.  File-time stamping as claimed: with file_timestamp on, an output  *)
(* file that a rotation has closed carries as modification time the        *)
(* highest timestamp of the records in that file, or the baseline          *)
(* 1408893517 - 315360000 if that is higher.                               *)
(***************************************************************************)
ClosedFiles == {name \in OutNames : name.kind = "dir" /\ name.n < copier.outFn}

\* the records of the output files numbered n at most, in file order
WrittenUpTo(n) ==
    LET RECURSIVE cat(_)
        cat(i) == IF i > n THEN <<>> ELSE outDir[[kind |-> "dir", n |-> i]] \o cat(i + 1)
    IN cat(0)

C10_StampIsMaxOfFile ==
    (Constructed /\ copier.setFileTime /\ ~copier.fileOutput) =>
        \A name \in ClosedFiles :
            /\ name \in DOMAIN mtime
            /\ mtime[name] = MaxTime(outDir[name], Num(BaseHighTS))

(***************************************************************************)
(* C10 as amended: the modification time is the highest timestamp of all   *)
(* the records written in the run before the file was closed, those of the *)
(* earlier output files included, or the baseline if that is higher.       *)
(***************************************************************************)
C10_StampIsMaxOfRun ==
    (Constructed /\ copier.setFileTime /\ ~copier.fileOutput) =>
        \A name \in ClosedFiles :
            /\ name \in DOMAIN mtime
            /\ mtime[name] = MaxTime(WrittenUpTo(name.n), Num(BaseHighTS))

C10_Witness ==
    /\ copier.setFileTime
    /\ ~copier.fileOutput
    /\ \E name \in ClosedFiles :
           /\ name \in DOMAIN mtime
           /\ NumLess(MaxTime(outDir[name], Num(BaseHighTS)), mtime[name])
           /\ mtime[name] = MaxTime(outDir[[kind |-> "dir", n |-> 0]], Num(BaseHighTS))

(***************************************************************************)
(* C11.  Single fixed output path: with output_file and no output          *)
(* directory there is no rotation, whatever max_out_sz and split_timestamp *)
(* are: the file number stays 0, and the one file holds every record       *)
(* written so far, in height order.                                        *)
(***************************************************************************)
FixedPath == [kind |-> "file", n |-> 0]

C11_SingleFixedPath ==
    (Constructed /\ copier.fileOutput) =>
        /\ copier.outFn = 0
        /\ OutNames \subseteq {FixedPath}
        /\ copier.gaiaCountOut > 0 =>
              /\ FixedPath \in OutNames
              /\ Len(outDir[FixedPath]) = copier.gaiaCountOut
              /\ \A k \in 1..copier.gaiaCountOut : IsRecordOf(outDir[FixedPath][k], k - 1)

(***************************************************************************)
(* C12.  End-of-file detection: a turn of the loop whose 8-byte framing    *)
(* read returns nothing, or returns data whose first byte is NUL, takes    *)
(* the input file for exhausted: the file is closed, the file number goes  *)
(* up by one, and the rest of the file is not scanned.                     *)
(* Violated: the test of the first byte compares a byte with a string.     *)
(***************************************************************************)
FramingReadAhead ==
    /\ pc = "loop"
    /\ Branch(Env, Machine) \notin {"done", "nofile"}

EndOfFileAhead ==
    /\ FramingReadAhead
    /\ \/ Frame(Env, Machine).inhdr = <<>>
       \/ Frame(Env, Machine).inhdr[1] = 0

C12_EndOfFileDetected ==
    [][EndOfFileAhead =>
          /\ pc' = "loop"
          /\ copier'.inF = ClosedIn
          /\ copier'.inFn = copier.inFn + 1]_vars

(***************************************************************************)
(* C13.  Resynchronisation: a framing read at offset p of a file that does *)
(* not start with the magic (and is not taken for the end of the file) is  *)
(* followed by a framing read of the same file at offset p + 1, also when  *)
(* fewer than 8 bytes are left at p.  Stated of the turn the loop takes    *)
(* from a state, so that a turn that leaves the state as it was counts.    *)
(* Violated: the seek back is by 7 from wherever the read has ended.       *)
(***************************************************************************)
NoMagicAhead ==
    /\ FramingReadAhead
    /\ ~EndOfFileAhead
    /\ Frame(Env, Machine).inMagic # settings.netmagic

C13_ResyncByOne ==
    NoMagicAhead =>
        LET next == Step(Env, Machine)
        IN /\ next.pc = "loop"
           /\ next.copier.inFn = copier.inFn
           /\ next.copier.inF = [open |-> TRUE, pos |-> NumAdd(ScanPos, Num(1))]

(***************************************************************************)
(* C14.  Time-bucket rotation, with split_timestamp on and an output       *)
(* directory.  A record of a later month than the last month seen, written *)
(* while an output file is open, closes that file and is the first record  *)
(* of the next numbered file, whatever the sizes; a record of no later     *)
(* month rotates only for the size; a record that triggers both rotations  *)
(* moves the file number by one.  The files are numbered 0..outFn without  *)
(* a gap and none is empty.                                                *)
(***************************************************************************)
SplitWrite ==
    /\ WritesRecord
    /\ ~copier.fileOutput
    /\ copier.timestampSplit
    /\ copier.outF

LaterMonth == DateGT(RecMonth(LastWritten), copier.lastDate)

SizeReached == copier.outsz + RecSize(LastWritten) > settings.max_out_sz

StartsNextFile ==
    /\ copier'.outFn = copier.outFn + 1
    /\ copier'.outFname = [kind |-> "dir", n |-> copier.outFn + 1]
    /\ outDir'[copier'.outFname] = <<LastWritten>>
    /\ outDir'[copier.outFname] = outDir[copier.outFname]

StaysInFile ==
    /\ copier'.outFn = copier.outFn
    /\ copier'.outFname = copier.outFname
    /\ outDir'[copier.outFname] = Append(outDir[copier.outFname], LastWritten)

TimeRotationStep ==
    SplitWrite =>
        /\ LaterMonth => (StartsNextFile /\ copier'.lastDate = RecMonth(LastWritten))
        /\ ~LaterMonth => copier'.lastDate = copier.lastDate
        /\ (~LaterMonth /\ SizeReached) => StartsNextFile
        /\ (~LaterMonth /\ ~SizeReached) => StaysInFile

FilesNumberedWithoutGap ==
    (Constructed /\ ~copier.fileOutput /\ copier.timestampSplit /\ pc # "crashed") =>
        /\ OutNames = IF copier.outF
                      THEN {[kind |-> "dir", n |-> i] : i \in 0..copier.outFn}
                      ELSE {}
        /\ \A name \in OutNames : outDir[name] # <<>>

C14_TimeRotation == [](FilesNumberedWithoutGap) /\ [][TimeRotationStep]_vars

\* a time rotation that the size did not call for
C14_Witness ==
    /\ ~copier.fileOutput
    /\ copier.timestampSplit
    /\ copier.outFn >= 1
    /\ copier.outF
    /\ LET f0 == outDir[[kind |-> "dir", n |-> 0]]
           f1 == outDir[[kind |-> "dir", n |-> 1]]
       IN /\ DateGT(RecMonth(f1[1]), RecMonth(f0[Len(f0)]))
          /\ FileSize(f0) + RecSize(f1[1]) <= settings.max_out_sz

(***************************************************************************)
(* C15.  Entries exist only for heights not yet due: no key of the extent  *)
(* map and no key of the out-of-order cache is below the cursor            *)
(* gaiaCountOut, and every key of the cache is a key of the extent map.    *)
(* Violated: a known record at a height already written is taken for an    *)
(* out-of-order record.                                                    *)
(***************************************************************************)
C15_OnlyPendingHeights ==
    Constructed =>
        /\ \A k \in DOMAIN copier.blockExtents : k >= copier.gaiaCountOut
        /\ \A k \in DOMAIN copier.outOfOrderData : k >= copier.gaiaCountOut
        /\ DOMAIN copier.outOfOrderData \subseteq DOMAIN copier.blockExtents

(***************************************************************************)
(* C16.  Scoped handles.  The scan has one handle: the file number moves   *)
(* only in a step that leaves no input file open (a file is closed before  *)
(* the next is opened).  A turn of the drain loop leaves the scan where it *)
(* was, file number and offset, so that after an in-order record and its   *)
(* drain the next framing read is at the byte after that record.           *)
(***************************************************************************)
ScanHandleStep ==
    copier'.inFn # copier.inFn => (~copier'.inF.open /\ copier'.inFn = copier.inFn + 1)

DrainKeepsScan ==
    pc = "drain" => (copier'.inFn = copier.inFn /\ copier'.inF = copier.inF)

InOrderRecordAhead ==
    /\ pc = "loop"
    /\ Branch(Env, Machine) = "inorder"
    /\ ~NumLess(Record(Env, Machine).inLen, Num(0))

ScanAfterInOrder ==
    (InOrderRecordAhead /\ pc' # "crashed") =>
        /\ copier'.inFn = copier.inFn
        /\ copier'.inF =
              [open |-> TRUE,
               pos |-> LET end == NumAdd(NumAdd(ScanPos, Num(FrameLen + HdrLen)),
                                                 Record(Env, Machine).inLen)
                           size == Num(Len(inputDir[copier.inFn]))
                       IN IF NumLess(end, size) THEN end ELSE size]

C16_ScopedHandles == [][ScanHandleStep /\ DrainKeepsScan /\ ScanAfterInOrder]_vars

\* the record of height 1 came before that of height 0 and was not cached:
\* the drain has fetched it, and the scan is at the end of the record of
\* height 0
C16_Witness ==
    /\ settings.out_of_order_cache_sz = 0
    /\ Len(stream) >= 2
    /\ stream[1] = Rec(1)
    /\ stream[Len(stream)] = Rec(0)
    /\ pc = "loop"
    /\ copier.gaiaCountOut >= 2
    /\ copier.inF = [open |-> TRUE, pos |-> Num(Len(inputDir[copier.inFn]))]
    /\ Len(Written) >= 2
    /\ IsRecordOf(Written[2], 1)

(***************************************************************************)
(* C17.  No due record is left pending.  When the main loop is about to    *)
(* read a framing header, the cursor gaiaCountOut is no key of the extent  *)
(* map: a drain goes on for as long as the extent map has an entry for the *)
(* cursor.  The cursor moves only up, by one, and exactly in the steps     *)
(* that write a record to an output file.                                  *)
(***************************************************************************)
NothingDueAtLoop ==
    /\ (Constructed /\ pc = "loop") => copier.gaiaCountOut \notin DOMAIN copier.blockExtents
    /\ pc = "drain" => copier.gaiaCountOut \in DOMAIN copier.blockExtents

\* the step appends one record to the output file that is open after it
AppendsRecord ==
    /\ copier'.outF
    /\ copier'.outFname \in DOMAIN outDir'
    /\ outDir'[copier'.outFname] # <<>>
    /\ \/ /\ copier'.outFname \in DOMAIN outDir
          /\ copier.outF
          /\ copier'.outFname = copier.outFname
          /\ outDir'[copier'.outFname] = Append(outDir[copier.outFname], LastWritten)
       \/ outDir'[copier'.outFname] = <<LastWritten>>

CursorStep ==
    Constructed =>
        /\ copier'.gaiaCountOut \in {copier.gaiaCountOut, copier.gaiaCountOut + 1}
        /\ WritesRecord <=> (outDir' # outDir)
        /\ WritesRecord => AppendsRecord
        /\ (WritesRecord /\ copier'.gaiaCountOut \in DOMAIN copier'.blockExtents)
              => pc' = "drain"

C17_NoDueRecordPending == [](NothingDueAtLoop) /\ [][CursorStep]_vars

\* a drain of two records has ended and the loop is to read on
C17_Witness ==
    /\ pc = "loop"
    /\ copier.gaiaCountOut = 3
    /\ copier.gaiaCountIn = 3
    /\ copier.blockExtents = EmptyDict
    /\ Len(stream) = 3
    /\ stream[3] = Rec(0)

(***************************************************************************)
(* C18.  Cache accounting.  In every state the running total               *)
(* outOfOrderSize is the sum of the payload sizes of the entries that the  *)
(* out-of-order cache holds, and so it is 0 whenever the cache is empty.   *)
(***************************************************************************)
CachedBytes ==
    LET RECURSIVE sum(_)
        sum(keys) ==
            IF keys = {} THEN 0
            ELSE LET k == CHOOSE x \in keys : TRUE
                 IN Len(copier.outOfOrderData[k]) + sum(keys \ {k})
    IN sum(DOMAIN copier.outOfOrderData)

C18_CacheAccounting ==
    Constructed =>
        /\ copier.outOfOrderSize = Num(CachedBytes)
        /\ copier.outOfOrderData = EmptyDict => copier.outOfOrderSize = Num(0)

(***************************************************************************)
(* C19.  Oversize record.  Size rotation closes an output file only when   *)
(* one is open, so no write fails for want of a file to close.  An         *)
(* in-order record whose framed size alone is above max_out_sz is written  *)
(* whole, as the only record of the output file that is open afterwards,   *)
(* and the run goes on: also when no output file is open yet.              *)
(***************************************************************************)
OversizeRecordAhead ==
    /\ Constructed
    /\ ~copier.fileOutput
    /\ InOrderRecordAhead
    /\ Len(ReadAt(Record(Env, Machine).bytes, Record(Env, Machine).posAfterHdr,
                  Record(Env, Machine).inLen).data)
          + FrameLen + HdrLen > settings.max_out_sz

C19_OversizeRecord ==
    /\ err # "AttributeError"
    /\ OversizeRecordAhead =>
          LET f == Record(Env, Machine)
              rawblock == ReadAt(f.bytes, f.posAfterHdr, f.inLen).data
              next == Step(Env, Machine)
          IN /\ next.pc \in {"loop", "drain"}
             /\ next.copier.gaiaCountOut = copier.gaiaCountOut + 1
             /\ next.copier.outF
             /\ next.copier.outFname \in DOMAIN next.outDir
             /\ next.outDir[next.copier.outFname] =
                   <<[inhdr |-> f.inhdr, gaia_hdr |-> f.gaia_hdr, rawblock |-> rawblock]>>
             /\ \A name \in DOMAIN outDir :
                   name \in DOMAIN next.outDir /\ next.outDir[name] = outDir[name]

(***************************************************************************)
(* C20.  Starting input file.  The constructor gets, from the five-digit   *)
(* field of the name of the lowest-numbered input file that the directory  *)
(* listing shows, the id the scan starts at, and 0 when the listing shows  *)
(* no file.  From there inFn moves only up, one file at a time, past files *)
(* that are present and were read to their end.                            *)
(***************************************************************************)
ListedIds == IF inputGlobbable THEN DOMAIN inputDir ELSE {}

StartId == IF ListedIds = {} THEN 0 ELSE MinId(ListedIds)

C20_StartingInputFile ==
    /\ pc = "construct" =>
          getFirstBlockFileId(inputDir, inputGlobbable) = [ok |-> TRUE, v |-> StartId]
    /\ Constructed =>
          /\ copier.inFn >= StartId
          /\ \A id \in StartId..(copier.inFn - 1) : id \in DOMAIN inputDir

====
